---- MODULE Spec2Model ----
(***************************************************************************)
(* Model of the request/retry core of the MemoryRelay Node SDK             *)
(* (MemoryRelay.constructor, MemoryRelay.request, handleErrorResponse,     *)
(* sleep) and of the error classes it raises.                              *)
(*                                                                         *)
(* JavaScript values are records so that values of different JavaScript    *)
(* types can be compared: a number is Num(n), the value undefined is       *)
(* Undefined and the number NaN is NaN.  A string that the code parses     *)
(* (the retry-after header) is a sequence of one-character strings.        *)
(***************************************************************************)
EXTENDS Integers, Sequences, FiniteSets, TLC

\* ---------------------------------------------------------------- bounds
\* Longest batch handed to memories.createBatch.
MaxBatch == 2
\* Largest explicitly configured maxRetries (the default is always available
\* through an omitted maxRetries).
MaxN == 4
\* Number of call slots of MemoryRelay.request on one client.
NumCalls == 2

\* ------------------------------------------------------- JavaScript values
Undefined == [t |-> "undefined", v |-> 0]
NaN == [t |-> "NaN", v |-> 0]
Num(n) == [t |-> "number", v |-> n]

\* x * k on JavaScript numbers (NaN is absorbing)
Times(x, k) == IF x.t = "number" THEN Num(x.v * k) ELSE NaN

Digits == {"0", "1", "2", "3", "4", "5", "6", "7", "8", "9"}

DigitVal(ch) ==
  CASE ch = "0" -> 0 [] ch = "1" -> 1 [] ch = "2" -> 2 [] ch = "3" -> 3
    [] ch = "4" -> 4 [] ch = "5" -> 5 [] ch = "6" -> 6 [] ch = "7" -> 7
    [] ch = "8" -> 8 [] ch = "9" -> 9

RECURSIVE SkipSpace(_)
SkipSpace(s) == IF s # <<>> /\ Head(s) = " " THEN SkipSpace(Tail(s)) ELSE s

\* value of the longest prefix of digits of s, starting from acc
RECURSIVE DigitPrefix(_, _)
DigitPrefix(s, acc) ==
  IF s # <<>> /\ Head(s) \in Digits
    THEN DigitPrefix(Tail(s), acc * 10 + DigitVal(Head(s)))
    ELSE acc

\* parseInt(s, 10): leading white space is skipped, an optional sign is
\* read, then the longest run of decimal digits; NaN when there is no digit.
parseInt(s) ==
  LET t == SkipSpace(s)
      neg == t # <<>> /\ Head(t) = "-"
      u == IF t # <<>> /\ Head(t) \in {"-", "+"} THEN Tail(t) ELSE t
  IN IF u = <<>> \/ Head(u) \notin Digits
       THEN NaN
       ELSE Num((IF neg THEN -1 ELSE 1) * DigitPrefix(u, 0))

\* ------------------------------------------------------------ error classes
\* An error instance: name (the kind tag), message, statusCode, response
\* (the raw body) and retryAfter.  NoData is an absent body.
NoData == [kind |-> "undefined", hasError |-> FALSE, error |-> "", tag |-> ""]

MkError(name, message, statusCode, response, retryAfter) ==
  [name |-> name, message |-> message, statusCode |-> statusCode,
   response |-> response, retryAfter |-> retryAfter]

APIError(message, statusCode, response) ==
  MkError("APIError", message, statusCode, response, Undefined)

AuthenticationError(message) ==
  MkError("AuthenticationError", message, Num(401), NoData, Undefined)

NotFoundError(message) ==
  MkError("NotFoundError", message, Num(404), NoData, Undefined)

ValidationError(message) ==
  MkError("ValidationError", message, Num(400), NoData, Undefined)

RateLimitError(message, retryAfter) ==
  MkError("RateLimitError", message, Num(429), NoData, retryAfter)

NetworkError(message) ==
  MkError("NetworkError", message, Undefined, NoData, Undefined)

TimeoutError(message) ==
  MkError("TimeoutError", message, Undefined, NoData, Undefined)

NoError == MkError("", "", Undefined, NoData, Undefined)

Taxonomy ==
  {"ValidationError", "AuthenticationError", "NotFoundError", "RateLimitError",
   "APIError", "NetworkError", "TimeoutError"}

\* ---------------------------------------------------------------- transport
\* Response bodies.  An error body may carry an `error` message field.
Body(hasError, error, tag) ==
  [kind |-> "object", hasError |-> hasError, error |-> error, tag |-> tag]

SuccessBodies == {Body(FALSE, "", "b1"), Body(FALSE, "", "b2")}

ErrBody == Body(TRUE, "server says no", "")
EmptyErrBody == Body(TRUE, "", "")
PlainBody == Body(FALSE, "", "")

\* The retry-after response header: absent, or a string.
NoHeader == [present |-> FALSE, value |-> <<>>]
Header(s) == [present |-> TRUE, value |-> s]

RetryAfterHeaders ==
  {NoHeader, Header(<<>>), Header(<<"0">>), Header(<<"1", "2">>),
   Header(<<"W", "e", "d">>)}

FatalStatuses == {400, 401, 403, 404, 499}

\* The transport is created without a validateStatus option, so it resolves
\* exactly the 2xx responses and rejects every other response with an
\* AxiosError that carries the response.
validateStatus(status) == status >= 200 /\ status < 300

\* What one httpClient.request settles with.
\*   type   "resolved" | "axiosError" | "error" (a non-axios Error instance)
\*          | "nonError" (a thrown value that is not an Error)
\*   cause  what happened on the wire: "response", "connection", "timeout"
\*          (the per-attempt timeout elapsed) or "other"
Outcome(type, hasResponse, status, data, retryAfter, message, cause) ==
  [type |-> type, hasResponse |-> hasResponse, status |-> status,
   data |-> data, retryAfter |-> retryAfter, message |-> message,
   cause |-> cause]

ServerResponse(status, data, retryAfter) ==
  IF validateStatus(status)
    THEN Outcome("resolved", TRUE, status, data, retryAfter, "", "response")
    ELSE Outcome("axiosError", TRUE, status, data, retryAfter,
                 "Request failed with status code " \o ToString(status),
                 "response")

ConnectionFailure ==
  Outcome("axiosError", FALSE, 0, NoData, NoHeader, "Network Error",
          "connection")

\* The transport's own timer (the configured `timeout`) fired.
TransportTimeout ==
  Outcome("axiosError", FALSE, 0, NoData, NoHeader,
          "timeout of 30000ms exceeded", "timeout")

\* Values thrown by the transport that are not AxiosErrors.
ForeignTimeoutError ==
  Outcome("error", FALSE, 0, NoData, NoHeader, "socket timeout", "other")

ForeignError ==
  Outcome("error", FALSE, 0, NoData, NoHeader, "boom", "other")

ForeignValue ==
  Outcome("nonError", FALSE, 0, NoData, NoHeader, "timeout", "other")

ResponseOutcomes ==
  {ServerResponse(200, d, NoHeader) : d \in SuccessBodies}
  \cup {ServerResponse(204, NoData, NoHeader)}
  \cup {ServerResponse(304, d, NoHeader) : d \in {ErrBody, NoData}}
  \cup {ServerResponse(s, d, NoHeader) :
          s \in FatalStatuses, d \in {ErrBody, PlainBody}}
  \cup {ServerResponse(404, EmptyErrBody, NoHeader)}
  \cup {ServerResponse(429, ErrBody, h) : h \in RetryAfterHeaders}
  \cup {ServerResponse(429, PlainBody, NoHeader)}
  \cup {ServerResponse(500, d, NoHeader) : d \in {ErrBody, PlainBody}}
  \cup {ServerResponse(503, EmptyErrBody, NoHeader)}

Outcomes ==
  ResponseOutcomes
  \cup {ConnectionFailure, TransportTimeout, ForeignTimeoutError, ForeignError,
        ForeignValue}

\* error.message.includes('timeout') on the messages of the model
MessagesWithTimeout == {"timeout of 30000ms exceeded", "socket timeout", "timeout"}
includesTimeout(message) == message \in MessagesWithTimeout

\* ------------------------------------------------------ MemoryRelay.request
DEFAULT_MAX_RETRIES == 3

\* Variant of Truthy: the test is made on the parsed number, so '0' is falsy.
TruthyNonZero(header) ==
  header.present /\ header.value # <<>> /\ header.value # <<"0">>

\* JavaScript truthiness of a header value (undefined and '' are falsy)
Truthy(header) == header.present /\ header.value # <<>>

\* (data as any)?.error || fallback
ErrorMessage(data, fallback) ==
  IF data.kind = "object" /\ data.hasError /\ data.error # ""
    THEN data.error
    ELSE fallback

\* Variant of Backoff: linear instead of exponential.
BackoffLinear(attempt) == Num((attempt + 1) * 1000)

\* 2 ** attempt * 1000
Backoff(attempt) == Num(2 ^ attempt * 1000)

\* Variant of MayRetry: gives up one attempt early.
MayRetryShort(attempt, N) == attempt < N - 2

\* attempt < this.maxRetries - 1
MayRetry(attempt, N) == attempt < N - 1

\* status >= 400 && status < 500 && status !== 429
IsFatalClientError(status) == status >= 400 /\ status < 500 /\ status # 429

\* Variant of WaitTime: without a retry-after the exponent is the 1-based
\* number of the attempt.
WaitTimeFromOne(retryAfter, attempt) ==
  IF Truthy(retryAfter)
    THEN Times(parseInt(retryAfter.value), 1000)
    ELSE Backoff(attempt + 1)

\* retryAfter ? parseInt(retryAfter, 10) * 1000 : 2 ** attempt * 1000
WaitTime(retryAfter, attempt) ==
  IF Truthy(retryAfter)
    THEN Times(parseInt(retryAfter.value), 1000)
    ELSE Backoff(attempt)

\* Variant of RetryAfterHint: the hint in milliseconds.
RetryAfterHintMs(retryAfter) ==
  IF Truthy(retryAfter)
    THEN Times(parseInt(retryAfter.value), 1000)
    ELSE Undefined

\* retryAfter ? parseInt(retryAfter, 10) : undefined
RetryAfterHint(retryAfter) ==
  IF Truthy(retryAfter) THEN parseInt(retryAfter.value) ELSE Undefined

\* Variant of handleErrorResponse: the 404 case is missing from the switch.
handleErrorResponseNo404(error) ==
  LET message == ErrorMessage(error.data, error.message)
  IN CASE error.status = 400 -> ValidationError(message)
       [] error.status = 401 -> AuthenticationError(message)
       [] error.status = 429 -> RateLimitError(message, Undefined)
       [] OTHER -> APIError(message, Num(error.status), error.data)

\* The error handleErrorResponse throws for an AxiosError with a response.
handleErrorResponse(error) ==
  LET message == ErrorMessage(error.data, error.message)
  IN CASE error.status = 400 -> ValidationError(message)
       [] error.status = 401 -> AuthenticationError(message)
       [] error.status = 404 -> NotFoundError(message)
       [] error.status = 429 -> RateLimitError(message, Undefined)
       [] OTHER -> APIError(message, Num(error.status), error.data)

\* `throw error` of a value that was not classified
Rethrown(error) ==
  MkError(IF error.type = "error" THEN "Error" ELSE "string", error.message,
          Undefined, NoData, Undefined)

\* What one pass through the catch block does: throw an error, or sleep for
\* ms and continue the loop; lastError is the value of the local afterwards.
Throw(e, le) == [act |-> "throw", ms |-> Undefined, error |-> e, lastError |-> le]
Sleep(ms, le) == [act |-> "sleep", ms |-> ms, error |-> NoError, lastError |-> le]

\* Variant of RetryOrThrow: sleeps after the last attempt as well.
RetryOrThrowAlways(e, attempt, N) ==
  Sleep(Backoff(attempt), e)

\* if (attempt < this.maxRetries - 1) { await this.sleep(...); continue; }
\* throw lastError;
RetryOrThrow(e, attempt, N) ==
  IF MayRetry(attempt, N) THEN Sleep(Backoff(attempt), e) ELSE Throw(e, e)

\* Variant of OnNoResponse: a network error is thrown at once.
OnNoResponseFatal(error, attempt, N, lastError) ==
  Throw(NetworkError("Network error: " \o error.message), lastError)

OnNoResponse(error, attempt, N, lastError) ==
  RetryOrThrow(NetworkError("Network error: " \o error.message), attempt, N)

\* Variant of OnRateLimit: waits after the last attempt as well.
OnRateLimitAlways(error, attempt, N, lastError) ==
  Sleep(WaitTime(error.retryAfter, attempt), lastError)

OnRateLimit(error, attempt, N, lastError) ==
  IF MayRetry(attempt, N)
    THEN Sleep(WaitTime(error.retryAfter, attempt), lastError)
    ELSE Throw(RateLimitError(ErrorMessage(error.data, "Rate limit exceeded"),
                              RetryAfterHint(error.retryAfter)),
               lastError)

\* Variant of OnServerError: a server error is thrown at once.
OnServerErrorFatal(error, attempt, N, lastError) ==
  Throw(APIError(ErrorMessage(error.data, "Server error"),
                 Num(error.status), error.data),
        lastError)

OnServerError(error, attempt, N, lastError) ==
  RetryOrThrow(APIError(ErrorMessage(error.data, "Server error"),
                        Num(error.status), error.data),
               attempt, N)

\* Variant of OnClientError: client errors are retried like server errors.
OnClientErrorRetried(error, attempt, N, lastError) ==
  RetryOrThrow(handleErrorResponse(error), attempt, N)

OnClientError(error, attempt, N, lastError) ==
  Throw(handleErrorResponse(error), lastError)

\* Variant of OnOtherStatus: the remaining statuses are retried.
OnOtherStatusRetried(error, attempt, N, lastError) ==
  RetryOrThrow(APIError(ErrorMessage(error.data, "API error"),
                        Num(error.status), error.data),
               attempt, N)

OnOtherStatus(error, attempt, N, lastError) ==
  Throw(APIError(ErrorMessage(error.data, "API error"), Num(error.status),
                 error.data),
        lastError)

OnTimeoutMessage(error, attempt, N, lastError) ==
  RetryOrThrow(TimeoutError("Request timeout"), attempt, N)

Catch(error, attempt, N, lastError) ==
  IF error.type = "axiosError"
    THEN IF ~error.hasResponse
           THEN OnNoResponse(error, attempt, N, lastError)
         ELSE IF IsFatalClientError(error.status)
           THEN OnClientError(error, attempt, N, lastError)
         ELSE IF error.status = 429
           THEN OnRateLimit(error, attempt, N, lastError)
         ELSE IF error.status >= 500
           THEN OnServerError(error, attempt, N, lastError)
         ELSE OnOtherStatus(error, attempt, N, lastError)
    ELSE IF error.type = "error" /\ includesTimeout(error.message)
      THEN OnTimeoutMessage(error, attempt, N, lastError)
    ELSE Throw(Rethrown(error), lastError)

\* Variant of Fallback: throws lastError as it is, without the default.
FallbackLastOnly(lastError) == lastError

\* throw lastError || new APIError('Request failed after all retries', 500)
Fallback(lastError) ==
  IF lastError # NoError
    THEN lastError
    ELSE APIError("Request failed after all retries", Num(500), NoData)

\* ------------------------------------------------------------------ strings
\* A string given by the caller is a sequence of runs [ch, n]: the character
\* ch repeated n >= 1 times, so that strings of 10,000 characters stay small.
\* A string parameter is Str(s), or NoStr when it is undefined.
Rep(ch, n) == <<[ch |-> ch, n |-> n]>>
Spaces(n) == Rep(" ", n)
Str(s) == [defined |-> TRUE, s |-> s]
NoStr == [defined |-> FALSE, s |-> <<>>]

\* s.length
RECURSIVE Length(_)
Length(s) == IF s = <<>> THEN 0 ELSE Head(s).n + Length(Tail(s))

RECURSIVE TrimStart(_)
TrimStart(s) ==
  IF s # <<>> /\ Head(s).ch = " " THEN TrimStart(Tail(s)) ELSE s

RECURSIVE TrimEnd(_)
TrimEnd(s) ==
  IF s # <<>> /\ s[Len(s)].ch = " "
    THEN TrimEnd(SubSeq(s, 1, Len(s) - 1))
    ELSE s

\* s.trim()
Trim(s) == TrimEnd(TrimStart(s))

\* !x || x.trim().length === 0
IsEmpty(x) == ~x.defined \/ Length(x.s) = 0 \/ Length(Trim(x.s)) = 0

\* ---------------------------------------------------------- resource facades
\* A facade call is [name, args]; a logical request is what the facade hands
\* to client.request: method, path (a base, an interpolated identifier, a
\* suffix), body and query parameters.
Op(name, args) == [name |-> name, args |-> args]
NoOp == Op("", [none |-> TRUE])

Path(base, id, suffix) == [base |-> base, id |-> id, suffix |-> suffix]
NoArg == [undefined |-> TRUE]
Req(method, path, body, params) ==
  [method |-> method, path |-> path, body |-> body, params |-> params]
NoRequest == Req("", Path("", NoStr, ""), NoArg, NoArg)

\* Variant of ContentError: the length bound is off by one.
ContentErrorOffByOne(content, prefix) ==
  IF IsEmpty(content)
    THEN ValidationError(prefix \o "content cannot be empty")
  ELSE IF Length(content.s) >= 10000
    THEN ValidationError(prefix \o "content cannot exceed 10000 characters")
  ELSE NoError

\* The content checks shared by create and update.
ContentError(content, prefix) ==
  IF IsEmpty(content)
    THEN ValidationError(prefix \o "content cannot be empty")
  ELSE IF Length(content.s) > 10000
    THEN ValidationError(prefix \o "content cannot exceed 10000 characters")
  ELSE NoError

\* The content and agent_id checks of create and of one batch item.
MemoryError(memory, prefix) ==
  IF ContentError(memory.content, prefix) # NoError
    THEN ContentError(memory.content, prefix)
  ELSE IF IsEmpty(memory.agent_id)
    THEN ValidationError(prefix \o "agent_id cannot be empty")
  ELSE NoError

\* Variant of UpdateError: the content is checked even when it is omitted.
UpdateErrorAlways(args) == ContentError(args.content, "")

\* if (content !== undefined) { ...the content checks... }
UpdateError(args) ==
  IF args.content.defined THEN ContentError(args.content, "") ELSE NoError

\* Variant of ItemsError: every item is checked and the last failure wins.
RECURSIVE ItemsErrorLast(_, _)
ItemsErrorLast(items, index) ==
  IF items = <<>>
    THEN NoError
  ELSE IF ItemsErrorLast(Tail(items), index + 1) # NoError
    THEN ItemsErrorLast(Tail(items), index + 1)
  ELSE MemoryError(Head(items),
                   "Memory at index " \o ToString(index) \o ": ")

\* memories.forEach((memory, index) => ...): the error of the first item
\* that fails, NoError when none does.
RECURSIVE ItemsError(_, _)
ItemsError(items, index) ==
  IF items = <<>>
    THEN NoError
  ELSE IF MemoryError(Head(items),
                      "Memory at index " \o ToString(index) \o ": ") # NoError
    THEN MemoryError(Head(items),
                     "Memory at index " \o ToString(index) \o ": ")
  ELSE ItemsError(Tail(items), index + 1)

\* The ValidationError a facade call throws before it reaches
\* client.request, NoError when it throws none.
Validate(op) ==
  CASE op.name = "memories.create" -> MemoryError(op.args, "")
    [] op.name = "memories.update" -> UpdateError(op.args)
    [] op.name = "memories.search" ->
         IF IsEmpty(op.args.query)
           THEN ValidationError("query cannot be empty")
           ELSE NoError
    [] op.name = "memories.createBatch" ->
         IF ~op.args.isArray \/ Len(op.args.memories) = 0
           THEN ValidationError("memories must be a non-empty array")
           ELSE ItemsError(op.args.memories, 0)
    [] OTHER -> NoError

\* Variant of LimitOrDefault: no default.
LimitAsGiven(limit) == limit

\* const { limit = 10 } = params
LimitOrDefault(limit) == IF limit = Undefined THEN Num(10) ELSE limit

\* Variant of CreateBody: the content is trimmed before it is sent.
CreateBodyTrimmed(args) ==
  [content |-> Str(Trim(args.content.s)), agent_id |-> args.agent_id,
   metadata |-> args.metadata, user_id |-> args.user_id]

\* { content, agent_id, metadata, user_id }
CreateBody(args) ==
  [content |-> args.content, agent_id |-> args.agent_id,
   metadata |-> args.metadata, user_id |-> args.user_id]

\* The logical request a facade call hands to client.request.
RequestOf(op) ==
  CASE op.name = "health" ->
         Req("GET", Path("/v1/health", NoStr, ""), NoArg, NoArg)
    [] op.name = "memories.create" ->
         Req("POST", Path("/v1/memories", NoStr, ""), CreateBody(op.args),
             NoArg)
    [] op.name = "memories.get" ->
         Req("GET", Path("/v1/memories/", op.args.id, ""), NoArg, NoArg)
    [] op.name = "memories.update" ->
         Req("PUT", Path("/v1/memories/", op.args.id, ""),
             [content |-> op.args.content, metadata |-> op.args.metadata],
             NoArg)
    [] op.name = "memories.delete" ->
         Req("DELETE", Path("/v1/memories/", op.args.id, ""), NoArg, NoArg)
    [] op.name = "memories.search" ->
         Req("POST", Path("/v1/memories/search", NoStr, ""),
             [query |-> op.args.query, agent_id |-> op.args.agent_id,
              limit |-> LimitOrDefault(op.args.limit),
              threshold |-> op.args.threshold],
             NoArg)
    [] op.name = "memories.list" ->
         Req("GET", Path("/v1/memories", NoStr, ""), NoArg, op.args)
    [] op.name = "memories.createBatch" ->
         Req("POST", Path("/v1/memories/batch", NoStr, ""),
             [memories |-> op.args.memories], NoArg)
    [] op.name = "entities.create" ->
         Req("POST", Path("/v1/entities", NoStr, ""), op.args, NoArg)
    [] op.name = "entities.get" ->
         Req("GET", Path("/v1/entities/", op.args.id, ""), NoArg, NoArg)
    [] op.name = "entities.list" ->
         Req("GET", Path("/v1/entities", NoStr, ""), NoArg, op.args)
    [] op.name = "agents.create" ->
         Req("POST", Path("/v1/agents", NoStr, ""), op.args, NoArg)
    [] op.name = "agents.get" ->
         Req("GET", Path("/v1/agents/", op.args.id, ""), NoArg, NoArg)
    [] op.name = "agents.list" ->
         Req("GET", Path("/v1/agents", NoStr, ""), NoArg, op.args)
    [] op.name = "agents.stats" ->
         Req("GET", Path("/v1/agents/", op.args.id, "/stats"), NoArg, NoArg)

\* -------------------------------------------------------------------- state
VARIABLES
  config,     \* the MemoryRelayConfig handed to the constructor
  client,     \* "new" before construction, then "ready" or "failed"
  maxRetries, \* this.maxRetries
  pc,         \* per call: "idle", "request" (awaiting the transport),
              \* "sleep" (awaiting the backoff timer), "returned", "thrown"
  attempt,    \* per call: the loop variable
  lastError,  \* per call: the local lastError (NoError is undefined)
  sent,       \* per call: number of httpClient.request calls issued
  sleeps,     \* per call: the arguments of the sleep calls, in order
  history,    \* per call: what each attempt settled with, in order
  returned,   \* per call: the value returned (NoData until then)
  thrown,     \* per call: the error thrown (NoError until then)
  via,        \* per call: how the call ended: "", "try", "catch", "fallback",
              \* or "validation" (thrown by a facade before client.request)
  call,       \* per call: the facade call the caller made (NoOp before)
  requested   \* per call: the logical request handed to client.request
              \* (NoRequest while there is none)

vars ==
  <<config, client, maxRetries, pc, attempt, lastError, sent, sleeps, history,
    returned, thrown, via, call, requested>>

callVars ==
  <<pc, attempt, lastError, sent, sleeps, history, returned, thrown, via,
    call, requested>>

CallIds == 1 .. NumCalls

ApiKeys == {"", "key"}

\* maxRetries as the caller may give it: omitted, or a number
MaxRetriesOptions == {Undefined} \cup {Num(n) : n \in -1 .. MaxN}

Configs == [apiKey : ApiKeys, maxRetries : MaxRetriesOptions]

\* Everything but the configuration, before the constructor runs.
Fresh ==
  /\ client = "new"
  /\ maxRetries = 0
  /\ pc = [c \in CallIds |-> "idle"]
  /\ attempt = [c \in CallIds |-> 0]
  /\ lastError = [c \in CallIds |-> NoError]
  /\ sent = [c \in CallIds |-> 0]
  /\ sleeps = [c \in CallIds |-> <<>>]
  /\ history = [c \in CallIds |-> <<>>]
  /\ returned = [c \in CallIds |-> NoData]
  /\ thrown = [c \in CallIds |-> NoError]
  /\ via = [c \in CallIds |-> ""]
  /\ call = [c \in CallIds |-> NoOp]
  /\ requested = [c \in CallIds |-> NoRequest]

Init ==
  /\ config \in Configs
  /\ Fresh

\* new MemoryRelay(config)
Construct ==
  /\ client = "new"
  /\ IF config.apiKey = ""
       THEN /\ client' = "failed"
            /\ UNCHANGED maxRetries
       ELSE /\ client' = "ready"
            /\ maxRetries' = IF config.maxRetries = Undefined
                               THEN DEFAULT_MAX_RETRIES
                               ELSE config.maxRetries.v
  /\ UNCHANGED <<config, callVars>>

\* Variant of LoopHead: the attempt counter is a field of the client, shared
\* by all calls in flight.
LoopHeadShared(c, a, le) ==
  /\ attempt' = [d \in CallIds |-> a]
  /\ lastError' = [lastError EXCEPT ![c] = le]
  /\ IF a < maxRetries
       THEN /\ pc' = [pc EXCEPT ![c] = "request"]
            /\ sent' = [sent EXCEPT ![c] = @ + 1]
            /\ UNCHANGED <<thrown, via>>
       ELSE /\ pc' = [pc EXCEPT ![c] = "thrown"]
            /\ thrown' = [thrown EXCEPT ![c] = Fallback(le)]
            /\ via' = [via EXCEPT ![c] = "fallback"]
            /\ UNCHANGED sent

\* The head of the for loop with attempt = a and lastError = le: issue the
\* next httpClient.request, or leave the loop and throw the fallback.
LoopHead(c, a, le) ==
  /\ attempt' = [attempt EXCEPT ![c] = a]
  /\ lastError' = [lastError EXCEPT ![c] = le]
  /\ IF a < maxRetries
       THEN /\ pc' = [pc EXCEPT ![c] = "request"]
            /\ sent' = [sent EXCEPT ![c] = @ + 1]
            /\ UNCHANGED <<thrown, via>>
       ELSE /\ pc' = [pc EXCEPT ![c] = "thrown"]
            /\ thrown' = [thrown EXCEPT ![c] = Fallback(le)]
            /\ via' = [via EXCEPT ![c] = "fallback"]
            /\ UNCHANGED sent

HealthOp == Op("health", NoArg)

\* client.health() calls client.request('GET', '/v1/health'), which runs up
\* to the first await
Request(c) ==
  /\ client = "ready"
  /\ pc[c] = "idle"
  /\ call' = [call EXCEPT ![c] = HealthOp]
  /\ requested' = [requested EXCEPT ![c] = RequestOf(HealthOp)]
  /\ LoopHead(c, 0, NoError)
  /\ UNCHANGED <<config, client, maxRetries, sleeps, history, returned>>

\* The awaited httpClient.request settles with outcome o and the call runs
\* up to its next await, return or throw.
Settle(c, o) ==
  /\ pc[c] = "request"
  /\ history' = [history EXCEPT ![c] = Append(@, o)]
  /\ IF o.type = "resolved"
       THEN /\ pc' = [pc EXCEPT ![c] = "returned"]
            /\ returned' = [returned EXCEPT ![c] = o.data]
            /\ via' = [via EXCEPT ![c] = "try"]
            /\ UNCHANGED <<lastError, sleeps, thrown>>
       ELSE LET step == Catch(o, attempt[c], maxRetries, lastError[c])
            IN /\ lastError' = [lastError EXCEPT ![c] = step.lastError]
               /\ IF step.act = "sleep"
                    THEN /\ pc' = [pc EXCEPT ![c] = "sleep"]
                         /\ sleeps' = [sleeps EXCEPT ![c] = Append(@, step.ms)]
                         /\ UNCHANGED <<thrown, via>>
                    ELSE /\ pc' = [pc EXCEPT ![c] = "thrown"]
                         /\ thrown' = [thrown EXCEPT ![c] = step.error]
                         /\ via' = [via EXCEPT ![c] = "catch"]
                         /\ UNCHANGED sleeps
               /\ UNCHANGED returned
  /\ UNCHANGED <<config, client, maxRetries, attempt, sent, call, requested>>

\* The sleep timer fires: `continue`, attempt++, loop test, next request.
Wake(c) ==
  /\ pc[c] = "sleep"
  /\ LoopHead(c, attempt[c] + 1, lastError[c])
  /\ UNCHANGED <<config, client, maxRetries, sleeps, history, returned, call,
                 requested>>

\* One call at a time on the client.
SeqCalls == {1}

Next ==
  \/ Construct
  \/ \E c \in SeqCalls : Request(c)
  \/ \E c \in SeqCalls, o \in Outcomes : Settle(c, o)
  \/ \E c \in SeqCalls : Wake(c)

Spec == Init /\ [][Next]_vars

\* One outcome for every branch of the try and catch blocks.
LiveOutcomes ==
  {ServerResponse(200, Body(FALSE, "", "b1"), NoHeader),
   ServerResponse(304, NoData, NoHeader),
   ServerResponse(404, ErrBody, NoHeader),
   ServerResponse(429, ErrBody, NoHeader),
   ServerResponse(429, ErrBody, Header(<<"1", "2">>)),
   ServerResponse(429, ErrBody, Header(<<"W", "e", "d">>)),
   ServerResponse(500, ErrBody, NoHeader),
   ConnectionFailure, TransportTimeout, ForeignTimeoutError, ForeignError}

NextLive ==
  \/ Construct
  \/ \E c \in SeqCalls : Request(c)
  \/ \E c \in SeqCalls, o \in LiveOutcomes : Settle(c, o)
  \/ \E c \in SeqCalls : Wake(c)

\* The same program when every awaited promise settles: each attempt issued
\* to the transport completes (the transport's own timeout bounds it) and
\* each sleep timer fires.
SpecLive ==
  /\ Init
  /\ [][NextLive]_vars
  /\ WF_vars(\E c \in SeqCalls, o \in LiveOutcomes : Settle(c, o))
  /\ WF_vars(\E c \in SeqCalls : Wake(c))

\* ------------------------------------------------------------- facade calls
\* Inputs of the facade calls.
Contents ==
  {<<>>, Spaces(1), Rep("a", 1), Rep("a", 10000), Rep("a", 10001),
   Spaces(10001), Spaces(1) \o Rep("a", 9999), Spaces(1) \o Rep("a", 10000)}

AgentIds == {<<>>, Spaces(2), Rep("g", 1)}

Ids == {<<>>, Spaces(1), Rep("m", 3)}

Names == {<<>>, Spaces(1), Rep("n", 1)}

Queries == {<<>>, Spaces(1), Rep("q", 2)}

BatchItems ==
  {[content |-> Str(Rep("a", 1)), agent_id |-> Str(Rep("g", 1))],
   [content |-> Str(Rep("a", 10000)), agent_id |-> Str(Rep("g", 1))],
   [content |-> Str(<<>>), agent_id |-> Str(Rep("g", 1))],
   [content |-> Str(Rep("a", 10001)), agent_id |-> Str(Rep("g", 1))],
   [content |-> Str(Rep("a", 1)), agent_id |-> Str(Spaces(2))]}

Batches == UNION {[1 .. n -> BatchItems] : n \in 0 .. MaxBatch}

FacadeOps ==
  {Op("memories.create",
      [content |-> Str(x), agent_id |-> Str(a), metadata |-> NoArg,
       user_id |-> NoStr]) : x \in Contents, a \in AgentIds}
  \cup {Op("memories.update",
           [id |-> Str(i), content |-> x, metadata |-> NoArg]) :
          i \in Ids, x \in {NoStr} \cup {Str(y) : y \in Contents}}
  \cup {Op("memories.search",
           [query |-> Str(q), agent_id |-> NoStr, limit |-> l,
            threshold |-> Undefined]) :
          q \in Queries, l \in {Undefined, Num(5)}}
  \cup {Op("memories.createBatch", [isArray |-> TRUE, memories |-> b]) :
          b \in Batches}
  \cup {Op("memories.createBatch", [isArray |-> FALSE, memories |-> <<>>])}
  \cup {Op(n, [id |-> Str(i)]) :
          n \in {"memories.get", "memories.delete", "entities.get",
                 "agents.get", "agents.stats"},
          i \in Ids}
  \cup {Op("entities.create",
           [name |-> Str(n), type |-> Str(t), metadata |-> NoArg]) :
          n \in Names, t \in Names}
  \cup {Op("agents.create",
           [id |-> Str(i), name |-> Str(n), description |-> NoStr,
            metadata |-> NoArg]) :
          i \in Ids, n \in Names}
  \cup {Op(n, NoArg) : n \in {"memories.list", "entities.list", "agents.list"}}

\* A facade method is called: it validates its arguments and throws, or
\* calls client.request, which runs up to its first await.
Invoke(c, op) ==
  /\ client = "ready"
  /\ pc[c] = "idle"
  /\ call' = [call EXCEPT ![c] = op]
  /\ IF Validate(op) # NoError
       THEN /\ pc' = [pc EXCEPT ![c] = "thrown"]
            /\ thrown' = [thrown EXCEPT ![c] = Validate(op)]
            /\ via' = [via EXCEPT ![c] = "validation"]
            /\ UNCHANGED <<attempt, lastError, sent, requested>>
       ELSE /\ requested' = [requested EXCEPT ![c] = RequestOf(op)]
            /\ LoopHead(c, 0, NoError)
  /\ UNCHANGED <<config, client, maxRetries, sleeps, history, returned>>

\* What the stub server answers to a logical request: an echo of the body
\* with an id, a { data: [...] } envelope, no content, or a failure.
EchoBody(req) ==
  [kind |-> "object", hasError |-> FALSE, error |-> "", tag |-> "mem_123",
   echo |-> req.body]

EnvelopeBody ==
  [kind |-> "object", hasError |-> FALSE, error |-> "", tag |-> "",
   data |-> <<"mem_1">>]

FacadeOutcomes(req) ==
  {ServerResponse(200, EchoBody(req), NoHeader),
   ServerResponse(200, EnvelopeBody, NoHeader),
   ServerResponse(204, NoData, NoHeader),
   ServerResponse(404, ErrBody, NoHeader),
   ServerResponse(500, ErrBody, NoHeader),
   ConnectionFailure}

\* What the facade method hands back once client.request has returned body:
\* search and list unwrap response.data, delete returns nothing.
Unwrap(name, body) ==
  IF name \in {"memories.search", "memories.list", "entities.list",
               "agents.list"}
    THEN IF "data" \in DOMAIN body
           THEN [defined |-> TRUE, items |-> body.data]
           ELSE [defined |-> FALSE, items |-> <<>>]
  ELSE IF name = "memories.delete"
    THEN NoData
  ELSE body

FacadeValue(c) == Unwrap(call[c].name, returned[c])

FacadeApiKeys == {"", " ", "key"}

FacadeConfigs ==
  [apiKey : FacadeApiKeys, maxRetries : {Undefined, Num(0), Num(1)}]

InitFacade ==
  /\ config \in FacadeConfigs
  /\ Fresh

NextFacade ==
  \/ Construct
  \/ \E c \in SeqCalls, op \in FacadeOps : Invoke(c, op)
  \/ \E c \in SeqCalls : \E o \in FacadeOutcomes(requested[c]) : Settle(c, o)
  \/ \E c \in SeqCalls : Wake(c)

SpecFacade == InitFacade /\ [][NextFacade]_vars

\* ---------------------------------------------------------- concurrent calls
\* Several calls of client.health() on one client, interleaved at their
\* awaits.
ConcOutcomes ==
  {ServerResponse(200, Body(FALSE, "", "b1"), NoHeader),
   ServerResponse(404, ErrBody, NoHeader),
   ServerResponse(429, ErrBody, Header(<<"0">>)),
   ServerResponse(500, ErrBody, NoHeader),
   ForeignError}

ConcConfigs == [apiKey : {"key"}, maxRetries : {Undefined, Num(1), Num(2)}]

InitConc ==
  /\ config \in ConcConfigs
  /\ Fresh

NextConc ==
  \/ Construct
  \/ \E c \in CallIds : Request(c)
  \/ \E c \in CallIds, o \in ConcOutcomes : Settle(c, o)
  \/ \E c \in CallIds : Wake(c)

SpecConc == InitConc /\ [][NextConc]_vars

\* ============================================================== properties
\* Classes of transport outcomes, as the specification names them.
HasStatus(o) == o.hasResponse
IsSuccess2xx(o) == o.hasResponse /\ o.status >= 200 /\ o.status < 300
Is3xx(o) == o.hasResponse /\ o.status >= 300 /\ o.status < 400
IsFatal4xx(o) ==
  o.hasResponse /\ o.status >= 400 /\ o.status < 500 /\ o.status # 429
Is429(o) == o.hasResponse /\ o.status = 429
Is5xx(o) == o.hasResponse /\ o.status >= 500
IsNoResponse(o) == o.type = "axiosError" /\ ~o.hasResponse
IsTimedOut(o) == o.cause = "timeout"
IsTimeoutMessage(o) == o.type = "error" /\ o.message \in MessagesWithTimeout

\* Retry-after header strings that are decimal integers, with their values.
IntegerHeaderValues == {<<"0">>, <<"1", "2">>}
DecimalValue(s) == IF s = <<"0">> THEN 0 ELSE 12
HasIntegerRetryAfter(o) ==
  o.retryAfter.present /\ o.retryAfter.value \in IntegerHeaderValues

\* 2^a seconds, in milliseconds
ExpWaitMs(a) == Num(2 ^ a * 1000)

\* The call made exactly n attempts, waited between them only, and is over.
EndedAfter(c, n) ==
  /\ pc[c] \in {"returned", "thrown"}
  /\ Len(history[c]) = n
  /\ sent[c] = n
  /\ Len(sleeps[c]) = n - 1

\* C1: a response with status 400..499 other than 429, on whatever attempt,
\* makes the call raise at once: it is the last attempt, no wait follows it,
\* and a call whose first response is such a status made one attempt.
C1_ClientErrorNeverRetried ==
  \A c \in CallIds : \A i \in 1 .. Len(history[c]) :
    IsFatal4xx(history[c][i]) =>
      /\ pc[c] = "thrown"
      /\ thrown[c] # NoError
      /\ EndedAfter(c, i)

C1_Witness ==
  /\ Len(history[1]) = 3
  /\ IsFatal4xx(history[1][3])
  /\ pc[1] = "thrown"

\* C2: with N >= 1 attempts configured and every attempt answered by a
\* status >= 500, the call makes exactly N attempts and then raises an
\* APIError with the status and raw body of the N-th response.
C2_ServerErrorsExhaustRetries ==
  \A c \in CallIds :
    LET h == history[c]
        n == Len(h)
    IN (n >= 1 /\ \A i \in 1 .. n : Is5xx(h[i])) =>
         /\ pc[c] # "returned"
         /\ sent[c] <= maxRetries
         /\ pc[c] = "thrown" =>
              /\ EndedAfter(c, maxRetries)
              /\ thrown[c].name = "APIError"
              /\ thrown[c].statusCode = Num(h[n].status)
              /\ thrown[c].response = h[n].data
         /\ n = maxRetries => pc[c] = "thrown"

C2_Witness ==
  /\ maxRetries = 3
  /\ pc[1] = "thrown"
  /\ Len(history[1]) = 3
  /\ \A i \in 1 .. 3 : Is5xx(history[1][i])
  /\ history[1][1].status # history[1][3].status

\* C3: when the first k attempts end without a response or with a status
\* >= 500 and k < N, the call goes on to attempt k+1; when that attempt
\* succeeds the call returns its body after exactly k+1 attempts and k waits.
C3_SuccessAfterRetryableFailures ==
  \A c \in CallIds :
    LET h == history[c]
        n == Len(h)
        Retryable(o) == IsNoResponse(o) \/ Is5xx(o)
    IN (n >= 1 /\ \A i \in 1 .. n - 1 : Retryable(h[i])) =>
         /\ h[n].type = "resolved" =>
              /\ pc[c] = "returned"
              /\ returned[c] = h[n].data
              /\ thrown[c] = NoError
              /\ EndedAfter(c, n)
         /\ (Retryable(h[n]) /\ n < maxRetries) =>
              /\ pc[c] \in {"sleep", "request"}
              /\ thrown[c] = NoError
              /\ Len(sleeps[c]) = n

C3_Witness ==
  /\ Len(history[1]) = 2
  /\ history[1][1] = ConnectionFailure
  /\ history[1][2].type = "resolved"
  /\ pc[1] = "returned"
  /\ Len(sleeps[1]) = 1

\* C4: after a failed attempt a < N-1 that ended with no response, a
\* timeout, a status >= 500 or a 429 without retry-after header, the wait
\* is exactly 2^a seconds; a 500 followed by a 200 succeeds after one wait
\* of one second.
C4_ExponentialBackoff ==
  \A c \in CallIds :
    LET h == history[c]
        BacksOff(o) ==
          \/ IsNoResponse(o)
          \/ IsTimedOut(o)
          \/ IsTimeoutMessage(o)
          \/ Is5xx(o)
          \/ Is429(o) /\ ~o.retryAfter.present
    IN /\ \A i \in 1 .. Len(h) :
            (BacksOff(h[i]) /\ i - 1 < maxRetries - 1) =>
              /\ Len(sleeps[c]) >= i
              /\ sleeps[c][i] = ExpWaitMs(i - 1)
       /\ (Len(h) = 2 /\ Is5xx(h[1]) /\ IsSuccess2xx(h[2])) =>
            /\ pc[c] = "returned"
            /\ sleeps[c] = <<Num(1000)>>

C4_Witness ==
  /\ Len(sleeps[1]) = 3
  /\ sleeps[1] = <<Num(1000), Num(2000), Num(4000)>>
  /\ IsTimedOut(history[1][1])
  /\ Is5xx(history[1][2])
  /\ Is429(history[1][3])

\* C5: a 429 on attempt a < N-1 with an integer retry-after header r
\* (r = 0 included) is followed by a wait of exactly r seconds, whatever a
\* is, and then by another attempt.
C5_RetryAfterTakesPrecedence ==
  \A c \in CallIds :
    LET h == history[c]
    IN \A i \in 1 .. Len(h) :
         (Is429(h[i]) /\ HasIntegerRetryAfter(h[i]) /\ i - 1 < maxRetries - 1) =>
           /\ Len(sleeps[c]) >= i
           /\ sleeps[c][i] = Num(DecimalValue(h[i].retryAfter.value) * 1000)
           /\ \/ pc[c] = "sleep" /\ Len(h) = i
              \/ sent[c] >= i + 1

C5_Witness ==
  /\ Len(history[1]) >= 2
  /\ Is429(history[1][1]) /\ history[1][1].retryAfter = Header(<<"1", "2">>)
  /\ Is429(history[1][2]) /\ history[1][2].retryAfter = Header(<<"0">>)
  /\ sleeps[1] = <<Num(12000), Num(0)>>
  /\ sent[1] = 3

\* C6: a 429 on the final attempt N-1 raises RateLimitError without a wait;
\* its retryAfter is the integer retry-after header of that response, or
\* undefined when that response has none.
C6_FinalRateLimit ==
  \A c \in CallIds :
    LET h == history[c]
        n == Len(h)
    IN (n >= 1 /\ n = maxRetries /\ Is429(h[n])
          /\ (HasIntegerRetryAfter(h[n]) \/ ~h[n].retryAfter.present)) =>
         /\ pc[c] = "thrown"
         /\ EndedAfter(c, n)
         /\ thrown[c].name = "RateLimitError"
         /\ thrown[c].retryAfter =
              IF h[n].retryAfter.present
                THEN Num(DecimalValue(h[n].retryAfter.value))
                ELSE Undefined

C6_Witness ==
  /\ maxRetries = 2
  /\ Len(history[1]) = 2
  /\ Is429(history[1][1]) /\ history[1][1].retryAfter = Header(<<"1", "2">>)
  /\ Is429(history[1][2]) /\ ~history[1][2].retryAfter.present
  /\ thrown[1].name = "RateLimitError"
  /\ thrown[1].retryAfter = Undefined

\* C7: an attempt that runs into the per-attempt timeout is classified as
\* TimeoutError: a call whose every attempt times out raises TimeoutError.
C7_TimeoutRaisesTimeoutError ==
  \A c \in CallIds :
    (/\ pc[c] = "thrown"
     /\ Len(history[c]) >= 1
     /\ \A i \in 1 .. Len(history[c]) : IsTimedOut(history[c][i])) =>
      thrown[c].name = "TimeoutError"

\* C8: every error that leaves request is a member of the error taxonomy.
C8_OnlyTaxonomyErrorsEscape ==
  \A c \in CallIds : pc[c] = "thrown" => thrown[c].name \in Taxonomy

\* C9: for a non-retried client error the kind raised depends on the status
\* alone: 400 ValidationError, 401 AuthenticationError, 404 NotFoundError,
\* any other 4xx except 429 APIError with that status and the raw body.
C9_StatusToKind ==
  \A c \in CallIds :
    LET h == history[c]
        n == Len(h)
        KindOf(status) ==
          CASE status = 400 -> "ValidationError"
            [] status = 401 -> "AuthenticationError"
            [] status = 404 -> "NotFoundError"
            [] OTHER -> "APIError"
    IN (n >= 1 /\ IsFatal4xx(h[n])) =>
         /\ pc[c] = "thrown"
         /\ thrown[c].name = KindOf(h[n].status)
         /\ thrown[c].statusCode = Num(h[n].status)
         /\ h[n].status \notin {400, 401, 404} => thrown[c].response = h[n].data

C9_Witness ==
  /\ Len(history[1]) = 1
  /\ history[1][1].status = 404
  /\ thrown[1].name = "NotFoundError"

\* C10 as stated: a response with any status below 400 is a success.
C10_Below400IsSuccess ==
  \A c \in CallIds : \A i \in 1 .. Len(history[c]) :
    (HasStatus(history[c][i]) /\ history[c][i].status < 400) =>
      /\ pc[c] = "returned"
      /\ returned[c] = history[c][i].data
      /\ thrown[c] = NoError
      /\ EndedAfter(c, i)

\* C10 amended: a 2xx response on any attempt is a success (its body is
\* returned at once, no error, no further attempt or wait); a 3xx response
\* ends the call at once too, but with an APIError carrying its status and
\* body.
C10_SuccessIs2xx ==
  \A c \in CallIds : \A i \in 1 .. Len(history[c]) :
    LET o == history[c][i]
    IN /\ IsSuccess2xx(o) =>
            /\ pc[c] = "returned"
            /\ returned[c] = o.data
            /\ thrown[c] = NoError
            /\ EndedAfter(c, i)
       /\ Is3xx(o) =>
            /\ pc[c] = "thrown"
            /\ thrown[c].name = "APIError"
            /\ thrown[c].statusCode = Num(o.status)
            /\ thrown[c].response = o.data
            /\ EndedAfter(c, i)

C10_Witness ==
  /\ Len(history[1]) = 2
  /\ Is3xx(history[1][2])
  /\ pc[1] = "thrown"
  /\ thrown[1].name = "APIError"

\* ------------------------------------------------- facade claims (C11-C16)
\* Caller-side reading of "empty or whitespace-only": every character of the
\* text is a space.
IsBlankText(x) == \A i \in 1 .. Len(x.s) : x.s[i].ch = " "
BlankKeys == {"", " "}

\* The call was refused locally: ValidationError, nothing handed to
\* client.request, no network attempt.
RefusedLocally(c) ==
  /\ pc[c] = "thrown"
  /\ thrown[c].name = "ValidationError"
  /\ via[c] = "validation"
  /\ requested[c] = NoRequest
  /\ sent[c] = 0
  /\ history[c] = <<>>

\* The call passed validation and made its one call of client.request.
ReachedExecutor(c) == requested[c] # NoRequest /\ via[c] # "validation"

\* C11: an empty or whitespace-only credential makes construction fail, so
\* no client results and no network call is made.
C11_BlankCredentialRejected ==
  (client # "new" /\ config.apiKey \in BlankKeys) =>
    /\ client = "failed"
    /\ \A c \in CallIds : sent[c] = 0

\* C12: memories.create is refused locally when content is empty,
\* whitespace-only or longer than 10,000 characters or agent_id is empty or
\* whitespace-only; content of exactly 10,000 characters with a non-empty
\* agent_id reaches the executor.
C12_CreateValidation ==
  \A c \in CallIds :
    call[c].name = "memories.create" =>
      LET a == call[c].args
          bad == \/ IsBlankText(a.content)
                 \/ Length(a.content.s) > 10000
                 \/ IsBlankText(a.agent_id)
      IN /\ bad => RefusedLocally(c)
         /\ ~bad => ReachedExecutor(c)
         /\ (Length(a.content.s) = 10000 /\ ~IsBlankText(a.content)
               /\ ~IsBlankText(a.agent_id)) => ReachedExecutor(c)

C12_Witness ==
  /\ call[1].name = "memories.create"
  /\ call[1].args.content = Str(Rep("a", 10000))
  /\ ReachedExecutor(1)
  /\ sent[1] = 1

\* C13: memories.createBatch is refused locally for an empty sequence and
\* for a sequence with an invalid item, the message naming the lowest
\* invalid index; a fully valid non-empty sequence is handed to the executor.
C13_BatchAllOrNothing ==
  \A c \in CallIds :
    call[c].name = "memories.createBatch" =>
      LET items == call[c].args.memories
          Bad(i) == \/ IsBlankText(items[i].content)
                    \/ Length(items[i].content.s) > 10000
                    \/ IsBlankText(items[i].agent_id)
          invalid == {i \in 1 .. Len(items) : Bad(i)}
          Named(k) ==
            {"Memory at index " \o ToString(k) \o ": " \o m :
               m \in {"content cannot be empty",
                      "content cannot exceed 10000 characters",
                      "agent_id cannot be empty"}}
      IN /\ (~call[c].args.isArray \/ items = <<>> \/ invalid # {}) =>
              RefusedLocally(c)
         /\ \A i \in invalid :
              (\A j \in invalid : i <= j) => thrown[c].message \in Named(i - 1)
         /\ (call[c].args.isArray /\ items # <<>> /\ invalid = {}) =>
              /\ ReachedExecutor(c)
              /\ requested[c].body = [memories |-> items]

C13_Witness ==
  /\ call[1].name = "memories.createBatch"
  /\ Len(call[1].args.memories) = 2
  /\ call[1].args.memories[1].content = Str(Rep("a", 1))
  /\ call[1].args.memories[1].agent_id = Str(Rep("g", 1))
  /\ thrown[1].message = "Memory at index 1: content cannot be empty"

\* C14: memories.get, memories.update, memories.delete, entities.get,
\* agents.get and agents.stats are refused locally when the identifier is
\* empty or whitespace-only.
C14_BlankIdentifierRejected ==
  \A c \in CallIds :
    (/\ call[c].name \in {"memories.get", "memories.update", "memories.delete",
                          "entities.get", "agents.get", "agents.stats"}
     /\ IsBlankText(call[c].args.id)) =>
      RefusedLocally(c)

\* C15: entities.create and agents.create are refused locally when a
\* required string field (entity name or type, agent id or name) is empty or
\* whitespace-only.
C15_BlankRequiredFieldRejected ==
  \A c \in CallIds :
    /\ (call[c].name = "entities.create"
          /\ (IsBlankText(call[c].args.name) \/ IsBlankText(call[c].args.type)))
         => RefusedLocally(c)
    /\ (call[c].name = "agents.create"
          /\ (IsBlankText(call[c].args.id) \/ IsBlankText(call[c].args.name)))
         => RefusedLocally(c)

\* C16: memories.search is refused locally for an empty or whitespace-only
\* query; otherwise it makes one executor call whose body carries the query
\* and, when the caller gave no limit, limit 10.
C16_SearchValidation ==
  \A c \in CallIds :
    call[c].name = "memories.search" =>
      LET a == call[c].args
      IN /\ IsBlankText(a.query) => RefusedLocally(c)
         /\ ~IsBlankText(a.query) =>
              /\ ReachedExecutor(c)
              /\ requested[c].method = "POST"
              /\ requested[c].path = Path("/v1/memories/search", NoStr, "")
              /\ requested[c].body.query = a.query
              /\ requested[c].body.limit =
                   IF a.limit = Undefined THEN Num(10) ELSE a.limit

C16_Witness ==
  /\ call[1].name = "memories.search"
  /\ call[1].args.limit = Undefined
  /\ requested[1].body = [query |-> Str(Rep("q", 2)), agent_id |-> NoStr,
                          limit |-> Num(10), threshold |-> Undefined]
  /\ sent[1] = 1

\* ------------------------------------------------------ non-interference (C17)
\* What a call of client.request does when it runs alone against the
\* responses h, as a value: its position, attempts, waits and outcome.
AloneHead(s, a, le, N) ==
  IF a < N
    THEN [s EXCEPT !.attempt = a, !.lastError = le, !.pc = "request",
                   !.sent = @ + 1]
    ELSE [s EXCEPT !.attempt = a, !.lastError = le, !.pc = "thrown",
                   !.thrown = Fallback(le), !.via = "fallback"]

AloneSettle(s, o, N) ==
  IF o.type = "resolved"
    THEN [s EXCEPT !.pc = "returned", !.returned = o.data, !.via = "try"]
    ELSE LET step == Catch(o, s.attempt, N, s.lastError)
         IN IF step.act = "sleep"
              THEN [s EXCEPT !.lastError = step.lastError, !.pc = "sleep",
                             !.sleeps = Append(@, step.ms)]
              ELSE [s EXCEPT !.lastError = step.lastError, !.pc = "thrown",
                             !.thrown = step.error, !.via = "catch"]

AloneWake(s, N) == AloneHead(s, s.attempt + 1, s.lastError, N)

AloneStart(N) ==
  AloneHead([pc |-> "idle", attempt |-> 0, lastError |-> NoError, sent |-> 0,
             sleeps |-> <<>>, returned |-> NoData, thrown |-> NoError,
             via |-> ""],
            0, NoError, N)

\* The state right after the last response of h was handled.
RECURSIVE AloneRun(_, _, _)
AloneRun(s, h, N) ==
  IF h = <<>>
    THEN s
  ELSE IF Len(h) = 1
    THEN AloneSettle(s, h[1], N)
  ELSE AloneRun(AloneWake(AloneSettle(s, h[1], N), N), Tail(h), N)

CallState(c) ==
  [pc |-> pc[c], attempt |-> attempt[c], lastError |-> lastError[c],
   sent |-> sent[c], sleeps |-> sleeps[c], returned |-> returned[c],
   thrown |-> thrown[c], via |-> via[c]]

\* C17: calls on one client that interleave at their awaits do not
\* interfere: whatever the other calls do, each call's attempts, waits and
\* outcome are those of the same call run alone against the same responses.
C17_CallsDoNotInterfere ==
  \A c \in CallIds :
    pc[c] # "idle" =>
      LET alone == AloneRun(AloneStart(maxRetries), history[c], maxRetries)
      IN \/ CallState(c) = alone
         \/ alone.pc = "sleep" /\ CallState(c) = AloneWake(alone, maxRetries)

C17_Witness ==
  /\ pc[1] = "sleep" /\ attempt[1] = 0 /\ sleeps[1] = <<Num(1000)>>
  /\ pc[2] = "request" /\ attempt[2] = 2 /\ sleeps[2] = <<Num(1000), Num(0)>>

\* ------------------------------------------------ retries and round trip
\* Outcomes the executor retries while attempts remain.
IsRetried(o) ==
  IsNoResponse(o) \/ IsTimeoutMessage(o) \/ Is429(o) \/ Is5xx(o)

C19_CreateRoundTrip ==
  \A c \in CallIds :
    (call[c].name = "memories.create" /\ ReachedExecutor(c)) =>
      LET a == call[c].args
      IN /\ requested[c].method = "POST"
         /\ requested[c].path = Path("/v1/memories", NoStr, "")
         /\ requested[c].body.content = a.content
         /\ requested[c].body.agent_id = a.agent_id
         /\ pc[c] = "returned" =>
              /\ FacadeValue(c) = history[c][Len(history[c])].data
              /\ "echo" \in DOMAIN FacadeValue(c) =>
                   /\ FacadeValue(c).tag = "mem_123"
                   /\ FacadeValue(c).echo.content = a.content
                   /\ FacadeValue(c).echo.agent_id = a.agent_id

C19_Witness ==
  /\ call[1].name = "memories.create"
  /\ call[1].args.content = Str(Spaces(1) \o Rep("a", 9999))
  /\ pc[1] = "returned"
  /\ Len(history[1]) = 2
  /\ "echo" \in DOMAIN returned[1]
  /\ returned[1].echo.content = Str(Spaces(1) \o Rep("a", 9999))

\* The kind the specification gives to a retried outcome.
KindOfRetried(o) ==
  IF Is429(o) THEN "RateLimitError"
  ELSE IF Is5xx(o) THEN "APIError"
  ELSE IF IsTimedOut(o) \/ IsTimeoutMessage(o) THEN "TimeoutError"
  ELSE "NetworkError"

\* C20: when all N attempts fail with retried outcomes of whatever kinds,
\* the error raised is the classification of the N-th outcome.
C20_LastClassificationRaised ==
  \A c \in CallIds :
    LET h == history[c]
        n == Len(h)
    IN (pc[c] = "thrown" /\ n >= 1 /\ n = maxRetries
          /\ \A i \in 1 .. n : IsRetried(h[i])) =>
         thrown[c].name = KindOfRetried(h[n])

\* The same, leaving out calls whose final attempt ran into the transport's
\* timeout.
C20_Sanity ==
  \A c \in CallIds :
    LET h == history[c]
        n == Len(h)
    IN (pc[c] = "thrown" /\ n >= 1 /\ n = maxRetries
          /\ \A i \in 1 .. n : IsRetried(h[i])
          /\ ~IsTimedOut(h[n])) =>
         thrown[c].name = KindOfRetried(h[n])

\* -------------------------------------------------------------- termination
Ended(c) == pc[c] \in {"returned", "thrown"}

\* Attempts and waits of a call stay within N and N-1 and alternate: a wait
\* comes only after an attempt and only when another attempt is left.
AttemptsAndWaitsBounded ==
  \A c \in CallIds :
    /\ sent[c] <= IF maxRetries > 0 THEN maxRetries ELSE 0
    /\ Len(sleeps[c]) <= IF maxRetries > 0 THEN maxRetries - 1 ELSE 0
    /\ Len(history[c]) <= sent[c]
    /\ pc[c] = "idle" => sent[c] = 0 /\ sleeps[c] = <<>>
    /\ pc[c] = "request" =>
         Len(sleeps[c]) = sent[c] - 1 /\ Len(history[c]) = sent[c] - 1
    /\ pc[c] = "sleep" =>
         /\ Len(sleeps[c]) = sent[c]
         /\ Len(history[c]) = sent[c]
         /\ sent[c] = attempt[c] + 1
         /\ sent[c] < maxRetries
    /\ (Ended(c) /\ sent[c] >= 1) =>
         Len(sleeps[c]) = sent[c] - 1 /\ Len(history[c]) = sent[c]
    /\ (Ended(c) /\ sent[c] = 0) => sleeps[c] = <<>>

\* C21: when every attempt completes, a call to request terminates by
\* returning or raising after at most N attempts and at most N-1 waits;
\* every wait is followed by another attempt, none precedes the first
\* attempt or follows the last.
C21_Terminates ==
  /\ []AttemptsAndWaitsBounded
  /\ \A c \in SeqCalls :
       /\ (pc[c] \in {"request", "sleep"}) ~> Ended(c)
       /\ (pc[c] = "sleep") ~> (pc[c] = "request")

C21_Witness ==
  /\ maxRetries = 4
  /\ pc[1] = "thrown"
  /\ sent[1] = 4
  /\ Len(sleeps[1]) = 3
  /\ Len(history[1]) = 4

\* ----------------------------------------------------------------- fallback
FallbackError == APIError("Request failed after all retries", Num(500), NoData)

\* C22: for N >= 1 the fallback after the attempt loop is never reached: a
\* call that continues the loop does so with attempt < N-1, no call ends
\* through the fallback, and the generic error is never raised.
C22_FallbackUnreachable ==
  \A c \in CallIds :
    maxRetries >= 1 =>
      /\ via[c] # "fallback"
      /\ thrown[c].message # "Request failed after all retries"
      /\ pc[c] = "sleep" => attempt[c] < maxRetries - 1
      /\ pc[c] = "thrown" => via[c] = "catch" /\ thrown[c] # NoError

C22_Witness ==
  /\ maxRetries = 2
  /\ pc[1] = "thrown"
  /\ via[1] = "catch"
  /\ Len(history[1]) = 2
  /\ Is429(history[1][1])
  /\ Is429(history[1][2])
  /\ Len(sleeps[1]) = 1

\* The body carries an error message field.
HasErrorField(data) == data.kind = "object" /\ data.hasError

\* The built-in message of the branch that handles an error response.
DefaultMessage(o) ==
  IF Is429(o) THEN "Rate limit exceeded"
  ELSE IF Is5xx(o) THEN "Server error"
  ELSE IF IsFatal4xx(o) THEN o.message
  ELSE "API error"

\* C23: when the response that ends a call in an error has a body with an
\* error message field, the raised error's message is that field verbatim;
\* the built-in default is used only when the field is absent.
C23_ErrorFieldVerbatim ==
  \A c \in CallIds :
    LET h == history[c]
        n == Len(h)
    IN (pc[c] = "thrown" /\ via[c] = "catch" /\ n >= 1 /\ HasStatus(h[n])
          /\ h[n].status >= 400) =>
         thrown[c].message = IF HasErrorField(h[n].data)
                               THEN h[n].data.error
                               ELSE DefaultMessage(h[n])

\* The same for bodies whose error field is a non-empty string or absent.
C23_NonEmptyFieldVerbatim ==
  \A c \in CallIds :
    LET h == history[c]
        n == Len(h)
    IN (pc[c] = "thrown" /\ via[c] = "catch" /\ n >= 1 /\ HasStatus(h[n])
          /\ h[n].status >= 400
          /\ (HasErrorField(h[n].data) => h[n].data.error # "")) =>
         thrown[c].message = IF HasErrorField(h[n].data)
                               THEN h[n].data.error
                               ELSE DefaultMessage(h[n])

\* C24: memories.update checks content only when it is supplied: supplied
\* content that is empty, blank or longer than 10,000 characters is refused
\* locally; with content omitted no check applies and one PUT is handed to
\* the executor.
C24_UpdateValidation ==
  \A c \in CallIds :
    call[c].name = "memories.update" =>
      LET a == call[c].args
          bad == /\ a.content.defined
                 /\ IsBlankText(a.content) \/ Length(a.content.s) > 10000
      IN /\ bad => RefusedLocally(c)
         /\ ~bad =>
              /\ ReachedExecutor(c)
              /\ requested[c].method = "PUT"
              /\ requested[c].path = Path("/v1/memories/", a.id, "")
              /\ requested[c].body.content = a.content
         /\ ~a.content.defined => ReachedExecutor(c)

C24_Witness ==
  /\ call[1].name = "memories.update"
  /\ call[1].args.content = NoStr
  /\ call[1].args.id = Str(Rep("m", 3))
  /\ requested[1].method = "PUT"
  /\ sent[1] = 1
  /\ pc[1] = "returned"

IsNonNegativeInteger(x) == x.t = "number" /\ x.v >= 0

\* C26: every wait has a non-negative integer duration, the retryAfter of a
\* raised RateLimitError is a non-negative integer or undefined, and a 429
\* whose retry-after header is present but not an integer is followed by
\* the exponential wait of its attempt.
C26_WaitsWellDefined ==
  \A c \in CallIds :
    LET h == history[c]
    IN /\ \A i \in 1 .. Len(sleeps[c]) : IsNonNegativeInteger(sleeps[c][i])
       /\ thrown[c].name = "RateLimitError" =>
            \/ thrown[c].retryAfter = Undefined
            \/ IsNonNegativeInteger(thrown[c].retryAfter)
       /\ \A i \in 1 .. Len(sleeps[c]) :
            (Is429(h[i]) /\ h[i].retryAfter.present
               /\ h[i].retryAfter.value # <<>>
               /\ ~HasIntegerRetryAfter(h[i])) =>
              sleeps[c][i] = ExpWaitMs(i - 1)

\* The same for responses whose retry-after header, when present, is an
\* integer.
C26_IntegerHeadersWellDefined ==
  \A c \in CallIds :
    LET h == history[c]
    IN (\A i \in 1 .. Len(h) :
          (Is429(h[i]) /\ h[i].retryAfter.present
             /\ h[i].retryAfter.value # <<>>) => HasIntegerRetryAfter(h[i])) =>
         /\ \A i \in 1 .. Len(sleeps[c]) : IsNonNegativeInteger(sleeps[c][i])
         /\ thrown[c].name = "RateLimitError" =>
              \/ thrown[c].retryAfter = Undefined
              \/ IsNonNegativeInteger(thrown[c].retryAfter)

\* The wait after outcome o is taken from a retry-after header.
HintedWait(o) == Is429(o) /\ o.retryAfter.present

\* C27: the exponent of an exponential wait is the call's 0-based attempt
\* index, whatever kinds of failure and whatever retry-after waits came
\* before: the wait after attempt a is 2^a seconds, so a 429 with
\* retry-after on attempt 0 and a 500 on attempt 1 lead to a wait of 2
\* seconds, and the exponential waits strictly increase with the index.
C27_ExponentIsAttemptIndex ==
  \A c \in CallIds :
    LET h == history[c]
        w == sleeps[c]
    IN /\ \A i \in 1 .. Len(w) : ~HintedWait(h[i]) => w[i] = Num(2 ^ (i - 1) * 1000)
       /\ \A i, j \in 1 .. Len(w) :
            (i < j /\ ~HintedWait(h[i]) /\ ~HintedWait(h[j])) => w[i].v < w[j].v
       /\ (Len(w) >= 2 /\ HintedWait(h[1]) /\ HasIntegerRetryAfter(h[1])
             /\ Is5xx(h[2])) =>
            w[2] = Num(2000)

C27_Witness ==
  /\ Len(history[1]) >= 3
  /\ Is429(history[1][1]) /\ history[1][1].retryAfter = Header(<<"1", "2">>)
  /\ Is5xx(history[1][2])
  /\ Is429(history[1][3]) /\ ~history[1][3].retryAfter.present
  /\ sleeps[1] = <<Num(12000), Num(2000), Num(4000)>>

====
